---- MODULE Spec2Model ----
(***************************************************************************)
(* Duck Machine DM2018S: the bit-field codec (bitfield.py) and the CPU's   *)
(* fetch-decode-execute cycle (cpu.py).                                    *)
(*                                                                         *)
(* Python integers are unbounded two's-complement integers.  They are      *)
(* modelled exactly, as records [neg, s]: a non-negative integer is the    *)
(* finite set s of the positions of its 1 bits; a negative integer is the  *)
(* finite set s of the positions of its 0 bits (every other bit, up to     *)
(* infinity, is 1).  The representation is canonical, so Python's == is    *)
(* record equality.                                                        *)
(***************************************************************************)
EXTENDS Integers, Sequences, FiniteSets, TLC

VARIABLES
    \* ---- bitfield.py: one client of the codec
    bf,         \* the BitField object (its attributes), or None
    word,       \* the word the client packs fields into
    ret,        \* what the last call returned, or the exception it raised
    call,       \* the last call: its name and arguments
    \* ---- cpu.py: the CPU object and its collaborators
    registers,  \* CPU.registers: index -> value held by the register object
    cc,         \* CPU.cc, the current condition flags
    halted,     \* CPU.halted
    memory,     \* the Memory object behind CPU.memory: address -> word
    mode,       \* "idle": no call in progress; "running": inside run's loop
    step_count, \* calls of step so far, over all calls of run (run's own
                \* step_count only numbers the single-step prompt)
    last,       \* what the most recent call of step, or of run before its
                \* loop, did (observation record)
    written     \* history: per memory cell, the last executed STORE into it

bfvars  == <<bf, word, ret, call>>
cpuvars == <<registers, cc, halted, memory, mode, step_count, last, written>>
vars    == <<bf, word, ret, call, registers, cc, halted, memory, mode,
             step_count, last, written>>

\* Python's None and a raised exception (values of another type than int)
None           == [type |-> "NoneType"]
AssertionError == [type |-> "AssertionError"]

\* ------------------------------------------------------------------------
\* Python int
\* ------------------------------------------------------------------------

RECURSIVE NatBits(_, _)
NatBits(n, i) ==
    IF n = 0 THEN {}
    ELSE (IF n % 2 = 1 THEN {i} ELSE {}) \cup NatBits(n \div 2, i + 1)

\* The Python int whose value is the (small) integer n.
Py(n) ==
    IF n >= 0 THEN [neg |-> FALSE, s |-> NatBits(n, 0)]
    ELSE [neg |-> TRUE, s |-> NatBits(-n - 1, 0)]

\* ~x
BitNot(x) == [neg |-> ~x.neg, s |-> x.s]

\* x & y
BitAnd(x, y) ==
    CASE ~x.neg /\ ~y.neg -> [neg |-> FALSE, s |-> x.s \cap y.s]
      [] ~x.neg /\ y.neg  -> [neg |-> FALSE, s |-> x.s \ y.s]
      [] x.neg /\ ~y.neg  -> [neg |-> FALSE, s |-> y.s \ x.s]
      [] x.neg /\ y.neg   -> [neg |-> TRUE, s |-> x.s \cup y.s]

\* x | y
BitOr(x, y) ==
    CASE ~x.neg /\ ~y.neg -> [neg |-> FALSE, s |-> x.s \cup y.s]
      [] ~x.neg /\ y.neg  -> [neg |-> TRUE, s |-> y.s \ x.s]
      [] x.neg /\ ~y.neg  -> [neg |-> TRUE, s |-> x.s \ y.s]
      [] x.neg /\ y.neg   -> [neg |-> TRUE, s |-> x.s \cap y.s]

\* x << k, k >= 0
LShift(x, k) ==
    [neg |-> x.neg,
     s   |-> {b + k : b \in x.s} \cup (IF x.neg THEN 0..(k - 1) ELSE {})]

\* x >> k, k >= 0 (arithmetic: the sign is kept)
RShift(x, k) ==
    [neg |-> x.neg, s |-> {b - k : b \in {c \in x.s : c >= k}}]

Top(S) == IF S = {} THEN 0 ELSE CHOOSE m \in S : \A b \in S : b <= m

\* The 1 bits of x below position K, and back; K is above every bit that
\* distinguishes x from its sign extension.
Ones(x, K) == IF x.neg THEN (0..(K - 1)) \ x.s ELSE x.s

FromOnes(r, K) ==
    IF (K - 1) \in r THEN [neg |-> TRUE, s |-> (0..(K - 1)) \ r]
    ELSE [neg |-> FALSE, s |-> r]

\* x + y: two's-complement addition in K bits, K wide enough for the sum.
\* Bit i of the sum is a_i xor b_i xor c_i, where the carry c_i is 1 iff some
\* lower position j generates a carry (a_j and b_j) that every position
\* between j and i propagates (a_k or b_k).
Plus(x, y) ==
    LET K == Top(x.s \cup y.s) + 3
        a == Ones(x, K)
        b == Ones(y, K)
        gen == a \cap b
        prop == a \cup b
        Carry(i) == \E j \in gen : j < i /\ \A k \in (j + 1)..(i - 1) : k \in prop
    IN  FromOnes({i \in 0..(K - 1) : ((i \in a) # (i \in b)) # Carry(i)}, K)

\* x - y
Minus(x, y) == Plus(x, Plus(BitNot(y), Py(1)))

\* x < y, x <= y
Less(x, y)   == Minus(x, y).neg
LessEq(x, y) == ~Less(y, x)

\* bool(x): a Python int is true unless it is 0
Truthy(x) == x # Py(0)

\* ------------------------------------------------------------------------
\* bitfield.py
\* ------------------------------------------------------------------------

WORD_SIZE == 32

\* int(digits, 2): the digit at position i from the left of a string of n
\* binary digits carries the weight 2^(n - i).
ParseBinary(digits) ==
    [neg |-> FALSE,
     s   |-> {Len(digits) - i : i \in {j \in 1..Len(digits) : digits[j] = "1"}}]

\* BitField._construct_mask: int(width * "1", 2)
construct_mask(width) == ParseBinary([i \in 1..width |-> "1"])

\* BitField.__init__: the attributes of the new object, or AssertionError.
BitField(from_bit, to_bit) ==
    IF ~(0 <= from_bit /\ from_bit < WORD_SIZE) THEN AssertionError
    ELSE IF ~(from_bit <= to_bit /\ to_bit <= WORD_SIZE) THEN AssertionError
    ELSE LET field_width == 1 + to_bit - from_bit
             mask == LShift(construct_mask(field_width), from_bit)
         IN  [from_bit    |-> from_bit,
              to_bit      |-> to_bit,
              field_width |-> field_width,
              mask        |-> mask,
              maskout     |-> BitNot(mask),
              comp        |-> LShift(Py(1), field_width),
              sign_bit    |-> LShift(Py(1), field_width - 1)]

\* insert with the field value shifted into place but not masked
insert_unmasked(self, field_value, w) ==
    BitOr(BitAnd(w, self.maskout), LShift(field_value, self.from_bit))

\* insert with the field value masked but not shifted into place
insert_unshifted(self, field_value, w) ==
    BitOr(BitAnd(w, self.maskout), BitAnd(field_value, self.mask))

\* insert that adds the field to a word whose field bits were not cleared
insert_uncleared(self, field_value, w) ==
    Plus(w, BitAnd(LShift(field_value, self.from_bit), self.mask))

insert(self, field_value, w) ==
    LET in_place == BitAnd(LShift(field_value, self.from_bit), self.mask)
    IN  BitOr(BitAnd(w, self.maskout), in_place)

extract(self, w) == RShift(BitAnd(w, self.mask), self.from_bit)

\* extract_signed testing the bit above the field for the sign
extract_signed_wrong_bit(self, w) ==
    LET unsigned == extract(self, w)
    IN  IF RShift(unsigned, self.field_width) = Py(1)
        THEN Minus(unsigned, self.comp)
        ELSE unsigned

extract_signed(self, w) ==
    LET unsigned == extract(self, w)
    IN  IF RShift(unsigned, self.field_width - 1) = Py(1)
        THEN Minus(unsigned, self.comp)
        ELSE unsigned

\* sign_extend subtracting the sign bit without masking it out first
sign_extend_unmasked(field, width) ==
    IF ~(width > 1) THEN AssertionError
    ELSE IF ~(LessEq(Py(0), field) /\ Less(field, LShift(Py(1), width + 1)))
    THEN AssertionError
    ELSE LET sign_bit == LShift(Py(1), width - 1)
         IN  IF Truthy(BitAnd(field, sign_bit))
             THEN Minus(field, sign_bit)
             ELSE field

sign_extend(field, width) ==
    IF ~(width > 1) THEN AssertionError
    ELSE IF ~(LessEq(Py(0), field) /\ Less(field, LShift(Py(1), width + 1)))
    THEN AssertionError
    ELSE LET sign_bit == LShift(Py(1), width - 1)
             mask == Minus(sign_bit, Py(1))
         IN  IF Truthy(BitAnd(field, sign_bit))
             THEN Minus(BitAnd(field, mask), sign_bit)
             ELSE field

\* ------------------------------------------------------------------------
\* cpu.py's collaborators: instr_format, register, alu, memory, mvc
\* ------------------------------------------------------------------------

ValueError == [type |-> "ValueError"]
IndexError == [type |-> "IndexError"]

\* CondFlag: a flag enumeration over the bits M, Z, P, V
NEVER  == Py(0)
Flag_Z == Py(2)
Flag_P == Py(4)
ALWAYS == Py(15)

\* OpCode
HALT  == Py(0)
LOAD  == Py(1)
STORE == Py(2)
ADD   == Py(3)
OpCodes == {Py(0), Py(1), Py(2), Py(3), Py(5), Py(6), Py(7)}

\* The fields of an instruction word, high to low: reserved, operation,
\* condition, target register, two source registers, signed offset.
instr_field      == BitField(26, 30)
cond_field       == BitField(22, 25)
reg_target_field == BitField(18, 21)
reg_src1_field   == BitField(14, 17)
reg_src2_field   == BitField(10, 13)
offset_field     == BitField(0, 9)

\* A Python int used as an index into the 16-element register tuple.
ToIndex(x) == CHOOSE i \in 0..15 : Py(i) = x

\* decode(word): the Instruction, or ValueError for a word whose operation
\* field is no OpCode.
decode(w) ==
    IF extract(instr_field, w) \notin OpCodes THEN ValueError
    ELSE [op         |-> extract(instr_field, w),
          cond       |-> extract(cond_field, w),
          reg_target |-> ToIndex(extract(reg_target_field, w)),
          reg_src1   |-> ToIndex(extract(reg_src1_field, w)),
          reg_src2   |-> ToIndex(extract(reg_src2_field, w)),
          offset     |-> extract_signed(offset_field, w)]

\* Instruction.encode: the word that decodes to the given fields.
encode(cond, op, reg_target, reg_src1, reg_src2, offset) ==
    insert(offset_field, offset,
    insert(reg_src2_field, Py(reg_src2),
    insert(reg_src1_field, Py(reg_src1),
    insert(reg_target_field, Py(reg_target),
    insert(cond_field, cond,
    insert(instr_field, op, Py(0)))))))

\* a register tuple built of sixteen plain Register objects
all_plain_registers == [i \in 0..15 |-> "Register"]

\* CPU.registers: the class of each of the sixteen register objects
register_kinds ==
    [i \in 0..15 |-> IF i = 0 THEN "ZeroRegister" ELSE "Register"]

\* Register.put / ZeroRegister.put on register i of the register tuple:
\* a Register holds the value it is given, a ZeroRegister ignores it.
put(regs, i, value) ==
    IF register_kinds[i] = "ZeroRegister" THEN regs
    ELSE [regs EXCEPT ![i] = value]

\* Memory: the cell an address names, or -1 for an address outside it.
Cell(mem, addr) ==
    IF \E a \in DOMAIN mem : Py(a) = addr
    THEN CHOOSE a \in DOMAIN mem : Py(a) = addr
    ELSE -1

\* ------------------------------------------------------------------------
\* cpu.py
\* ------------------------------------------------------------------------

PC == 15

\* The CPU as an observer sees it (CPUStep.subject), with its memory.
State(regs, flags, h, mem) ==
    [registers |-> regs, cc |-> flags, halted |-> h, memory |-> mem]

\* What a call of step did; the fields that do not apply are None.
Report(before, outcome, raised, notified, seen, instr_addr, instr_word, instr, left, right, alu) ==
    [before |-> before, outcome |-> outcome, raised |-> raised,
     notified |-> notified, seen |-> seen, pc_addr |-> instr_addr,
     instr_word |-> instr_word, instr |-> instr,
     left |-> left, right |-> right, alu |-> alu]

Result(st, rep) == [state |-> st, report |-> rep]

\* (self.cc & predicate) != CondFlag.NEVER
predicate_passes(flags, predicate) == BitAnd(flags, predicate) # NEVER

\* Step program counter: self.pc.put(self.pc.get() + 1)
advance_pc(regs) == put(regs, PC, Plus(regs[PC], Py(1)))

\* The else branch of step: the program counter still moves forward, with
\* no other computation.
skip_without_advance(st) == st

\* an else branch that halts the machine
skip_and_halt(st) ==
    [st EXCEPT !.registers = advance_pc(st.registers), !.halted = TRUE]

skip(st) == [st EXCEPT !.registers = advance_pc(st.registers)]

\* commit whose STORE branch falls through to the default target.put(result)
commit_store_falls_through(st, instr, result) ==
    CASE instr.op = LOAD ->
           IF Cell(st.memory, result) = -1
           THEN [state |-> st, raised |-> IndexError]
           ELSE [state |-> [st EXCEPT !.registers =
                               put(st.registers, instr.reg_target,
                                   st.memory[Cell(st.memory, result)])],
                 raised |-> None]
      [] instr.op = STORE ->
           IF Cell(st.memory, result) = -1
           THEN [state |-> st, raised |-> IndexError]
           ELSE [state |-> [st EXCEPT !.memory[Cell(st.memory, result)] =
                               st.registers[instr.reg_target],
                            !.registers =
                               put(st.registers, instr.reg_target, result)],
                 raised |-> None]
      [] instr.op = HALT ->
           [state |-> [st EXCEPT !.halted = TRUE], raised |-> None]
      [] OTHER ->
           [state |-> [st EXCEPT !.registers =
                          put(st.registers, instr.reg_target, result)],
            raised |-> None]

\* commit whose HALT branch falls through to the default target.put(result)
commit_halt_falls_through(st, instr, result) ==
    CASE instr.op = LOAD ->
           IF Cell(st.memory, result) = -1
           THEN [state |-> st, raised |-> IndexError]
           ELSE [state |-> [st EXCEPT !.registers =
                               put(st.registers, instr.reg_target,
                                   st.memory[Cell(st.memory, result)])],
                 raised |-> None]
      [] instr.op = STORE ->
           IF Cell(st.memory, result) = -1
           THEN [state |-> st, raised |-> IndexError]
           ELSE [state |-> [st EXCEPT !.memory[Cell(st.memory, result)] =
                               st.registers[instr.reg_target]],
                 raised |-> None]
      [] OTHER ->
           [state |-> [st EXCEPT !.halted = (instr.op = HALT) \/ st.halted,
                                 !.registers =
                                    put(st.registers, instr.reg_target, result)],
            raised |-> None]

\* commit whose STORE writes the ALU result instead of the target register
commit_store_result(st, instr, result) ==
    CASE instr.op = LOAD ->
           IF Cell(st.memory, result) = -1
           THEN [state |-> st, raised |-> IndexError]
           ELSE [state |-> [st EXCEPT !.registers =
                               put(st.registers, instr.reg_target,
                                   st.memory[Cell(st.memory, result)])],
                 raised |-> None]
      [] instr.op = STORE ->
           IF Cell(st.memory, result) = -1
           THEN [state |-> st, raised |-> IndexError]
           ELSE [state |-> [st EXCEPT !.memory[Cell(st.memory, result)] = result],
                 raised |-> None]
      [] instr.op = HALT ->
           [state |-> [st EXCEPT !.halted = TRUE], raised |-> None]
      [] OTHER ->
           [state |-> [st EXCEPT !.registers =
                          put(st.registers, instr.reg_target, result)],
            raised |-> None]

\* The commit of an executed instruction (the LOAD / STORE / HALT / else
\* chain), from the state st after the PC step and the flag update:
\* the new state, and the exception raised if any.
commit(st, instr, result) ==
    CASE instr.op = LOAD ->
           IF Cell(st.memory, result) = -1
           THEN [state |-> st, raised |-> IndexError]
           ELSE [state |-> [st EXCEPT !.registers =
                               put(st.registers, instr.reg_target,
                                   st.memory[Cell(st.memory, result)])],
                 raised |-> None]
      [] instr.op = STORE ->
           IF Cell(st.memory, result) = -1
           THEN [state |-> st, raised |-> IndexError]
           ELSE [state |-> [st EXCEPT !.memory[Cell(st.memory, result)] =
                               st.registers[instr.reg_target]],
                 raised |-> None]
      [] instr.op = HALT ->
           [state |-> [st EXCEPT !.halted = TRUE], raised |-> None]
      [] OTHER ->
           [state |-> [st EXCEPT !.registers =
                          put(st.registers, instr.reg_target, result)],
            raised |-> None]

Executed(done, left, right) ==
    [state |-> done.state, raised |-> done.raised, left |-> left, right |-> right]

\* the execute branch with the program counter stepped after the commit
execute_advance_last(st, instr, alu) ==
    LET left == st.registers[instr.reg_src1]
        right == Plus(st.registers[instr.reg_src2], instr.offset)
        done == commit([st EXCEPT !.cc = alu.cc], instr, alu.result)
    IN  Executed([done EXCEPT !.state.registers = advance_pc(done.state.registers)],
                 left, right)

\* the execute branch keeping the ALU's flags only for arithmetic opcodes
execute_flags_of_arithmetic(st, instr, alu) ==
    LET left == st.registers[instr.reg_src1]
        right == Plus(st.registers[instr.reg_src2], instr.offset)
        stepped == [st EXCEPT !.registers = advance_pc(st.registers),
                              !.cc = IF instr.op \in {LOAD, STORE, HALT}
                                     THEN st.cc ELSE alu.cc]
    IN  Executed(commit(stepped, instr, alu.result), left, right)

\* the execute branch with the operands formed after the PC step
execute_operands_late(st, instr, alu) ==
    LET stepped == [st EXCEPT !.registers = advance_pc(st.registers),
                              !.cc = alu.cc]
        left == stepped.registers[instr.reg_src1]
        right == Plus(stepped.registers[instr.reg_src2], instr.offset)
    IN  Executed(commit(stepped, instr, alu.result), left, right)

\* The branch of step taken when the predicate passes: form the operands,
\* step the program counter, call the ALU (which returns alu), replace the
\* flags, commit.
execute(st, instr, alu) ==
    LET left == st.registers[instr.reg_src1]
        right == Plus(st.registers[instr.reg_src2], instr.offset)
        stepped == [st EXCEPT !.registers = advance_pc(st.registers),
                              !.cc = alu.cc]
    IN  Executed(commit(stepped, instr, alu.result), left, right)

\* step notifying its listeners only of the instructions it executes, after
\* it has executed them
step_notify_after(st, alu) ==
    LET instr_addr == st.registers[PC]
    IN  IF Cell(st.memory, instr_addr) = -1
        THEN Result(st, Report(st, "raised", IndexError, 0, None, instr_addr,
                               None, None, None, None, None))
        ELSE
        LET instr_word == st.memory[Cell(st.memory, instr_addr)]
            instr == decode(instr_word)
        IN  IF instr = ValueError
            THEN Result(st, Report(st, "raised", ValueError, 0, None,
                                   instr_addr, instr_word, None, None, None,
                                   None))
            ELSE
            IF predicate_passes(st.cc, instr.cond)
            THEN
            LET done == execute(st, instr, alu)
            IN  Result(done.state,
                       Report(st,
                              IF done.raised = None THEN "executed"
                              ELSE "raised",
                              done.raised,
                              IF done.raised = None THEN 1 ELSE 0,
                              IF done.raised = None THEN done.state ELSE None,
                              instr_addr, instr_word, instr,
                              done.left, done.right, alu))
            ELSE
            Result(skip(st),
                   Report(st, "skipped", None, 0, None, instr_addr,
                          instr_word, instr, None, None, None))

\* CPU.step from state st, with alu the (result, cc) pair that self.alu.exec
\* returns if it is called.
step(st, alu) ==
    LET instr_addr == st.registers[PC]
    IN  IF Cell(st.memory, instr_addr) = -1
        THEN Result(st, Report(st, "raised", IndexError, 0, None, instr_addr,
                               None, None, None, None, None))
        ELSE
        LET instr_word == st.memory[Cell(st.memory, instr_addr)]
            instr == decode(instr_word)
        IN  IF instr = ValueError
            THEN Result(st, Report(st, "raised", ValueError, 0, None,
                                   instr_addr, instr_word, None, None, None,
                                   None))
            ELSE
            \* notify_all(CPUStep(self, instr_addr, instr_word, instr)):
            \* the listeners see the CPU as it is now
            LET seen == st
            IN  IF predicate_passes(st.cc, instr.cond)
                THEN
                LET done == execute(st, instr, alu)
                IN  Result(done.state,
                           Report(st,
                                  IF done.raised = None THEN "executed"
                                  ELSE "raised",
                                  done.raised, 1, seen, instr_addr,
                                  instr_word, instr, done.left, done.right,
                                  alu))
                ELSE
                Result(skip(st),
                       Report(st, "skipped", None, 1, seen, instr_addr,
                              instr_word, instr, None, None, None))

\* ---- the environment: memory contents and what the ALU may return

MaxAddr  == 4
MaxSteps == 3

AllOnes == [neg |-> FALSE, s |-> 0..(WORD_SIZE - 1)]

\* What the ALU may return: 0 with Z; the address of the last memory cell
\* with P; 0xffffffff, which is no address of the memory, with P.
AluReturns ==
    {[result |-> Py(0), cc |-> Flag_Z],
     [result |-> Py(MaxAddr), cc |-> Flag_P],
     [result |-> AllOnes, cc |-> Flag_P]}

\* The word of every memory cell that holds no instruction (0xaa00aa00).
DataWord == [neg |-> FALSE, s |-> {9, 11, 13, 15, 25, 27, 29, 31}]

\* Register indices used by the programs: r0, two general registers, the PC.
RegSample == {0, 1, 2, 15}

\* Programs of three instructions.  The first has any operation and target,
\* executes or not, and has few operand shapes; the second is a LOAD into any
\* register, a STORE, or a HALT that executes only under Z; the third a LOAD
\* or a HALT.
FirstInstr ==
    {encode(c, op, t, 0, 0, Py(0)) :
        c \in {ALWAYS, NEVER}, op \in {HALT, LOAD, STORE, ADD}, t \in RegSample}
    \cup {encode(ALWAYS, ADD, 1, 15, 15, Py(-1)),
          encode(ALWAYS, STORE, 15, 15, 0, Py(-1))}

NextInstr ==
    {encode(ALWAYS, LOAD, t, 0, 0, Py(0)) : t \in RegSample}
    \cup {encode(ALWAYS, STORE, 1, 0, 0, Py(0)),
          encode(Flag_Z, HALT, 15, 0, 0, Py(0))}

LastInstr ==
    {encode(ALWAYS, LOAD, 2, 0, 0, Py(0)), encode(ALWAYS, HALT, 0, 0, 0, Py(0))}

Programs == FirstInstr \X NextInstr \X LastInstr

Load(prog) ==
    [a \in 0..MaxAddr |-> IF a < Len(prog) THEN prog[a + 1] ELSE DataWord]

StartAddrs == {Py(0), Py(1)}

\* CPU.__init__(memory)
CPUIdle ==
    /\ registers = [i \in 0..15 |-> Py(0)]
    /\ cc = ALWAYS
    /\ halted = FALSE
    /\ mode = "idle"
    /\ step_count = 0
    /\ last = None
    /\ written = [a \in 0..MaxAddr |-> None]

Init ==
    /\ bf = None /\ word = Py(0) /\ ret = None /\ call = [op |-> "none"]
    /\ CPUIdle
    /\ \E prog \in Programs : memory = Load(prog)

Apply(r) ==
    /\ registers' = r.state.registers
    /\ cc' = r.state.cc
    /\ halted' = r.state.halted
    /\ memory' = r.state.memory
    /\ last' = r.report
    /\ step_count' = step_count + 1
    /\ written' =
         IF r.report.outcome = "executed" /\ r.report.instr.op = STORE
         THEN [written EXCEPT ![Cell(memory, r.report.alu.result)] =
                  [target |-> r.report.instr.reg_target,
                   value  |-> r.state.registers[r.report.instr.reg_target]]]
         ELSE written

\* What a call of run did before its loop, in place of a step's report.
Began(from_addr, was_halted) ==
    [outcome |-> "run", from_addr |-> from_addr, was_halted |-> was_halted]

\* run that seeds the PC but leaves the halted flag as it finds it
RunBegin_keeps_halted(from_addr) ==
    /\ mode = "idle"
    /\ registers' = put(registers, PC, from_addr)
    /\ mode' = "running"
    /\ last' = Began(from_addr, halted)
    /\ UNCHANGED <<halted, cc, memory, step_count, written>>

\* run, up to its loop: self.halted = False; self.pc.put(from_addr)
RunBegin(from_addr) ==
    /\ mode = "idle"
    /\ halted' = FALSE
    /\ registers' = put(registers, PC, from_addr)
    /\ mode' = "running"
    /\ last' = Began(from_addr, halted)
    /\ UNCHANGED <<cc, memory, step_count, written>>

\* a loop that never tests the flag
loop_forever(h) == TRUE

\* Whether run's loop goes round once more: while not self.halted
loop_continues(h) == ~h

\* run, one iteration of its loop: self.step().  The single_step prompt
\* only waits for the user and is left out.
RunStep ==
    /\ mode = "running"
    /\ loop_continues(halted)
    /\ step_count < MaxSteps
    /\ \E alu \in AluReturns :
         LET r == step(State(registers, cc, halted, memory), alu)
         IN  /\ Apply(r)
             /\ mode' = IF r.report.raised = None THEN "running" ELSE "idle"

\* run leaves its loop and returns
RunReturn ==
    /\ mode = "running"
    /\ ~loop_continues(halted)
    /\ mode' = "idle"
    /\ UNCHANGED <<registers, cc, halted, memory, step_count, last, written>>

\* a caller's own call of step
StepCall ==
    /\ mode = "idle"
    /\ step_count < MaxSteps
    /\ \E alu \in AluReturns :
         Apply(step(State(registers, cc, halted, memory), alu))
    /\ UNCHANGED mode

Next ==
    \/ \E from_addr \in StartAddrs : RunBegin(from_addr) /\ UNCHANGED bfvars
    \/ RunStep /\ UNCHANGED bfvars
    \/ RunReturn /\ UNCHANGED bfvars
    \/ StepCall /\ UNCHANGED bfvars

Spec == Init /\ [][Next]_vars

\* ------------------------------------------------------------------------
\* A client of the codec: it builds one BitField, then packs fields into a
\* word and unpacks them; sign_extend is a module-level function.
\* ------------------------------------------------------------------------

\* 32-bit words the client starts from: 0, 0xffffffff and 0xaa00aa00 (the
\* docstring's example).
Words ==
    {[neg |-> FALSE, s |-> {}],
     [neg |-> FALSE, s |-> 0..(WORD_SIZE - 1)],
     [neg |-> FALSE, s |-> {9, 11, 13, 15, 25, 27, 29, 31}]}

\* Field values handed to insert and sign_extend: 0, 0b101, 0b111,
\* 0xffffffff (wider than most fields) and -1.
FieldValues ==
    {Py(0), Py(5), Py(7), [neg |-> FALSE, s |-> 0..(WORD_SIZE - 1)], Py(-1)}

\* Bit positions and widths a caller may pass, legal or not.
BitArgs == (-1)..(WORD_SIZE + 1)

InitBF ==
    /\ bf = None
    /\ word \in Words
    /\ ret = None
    /\ call = [op |-> "none"]
    /\ CPUIdle
    /\ memory = Load(<<>>)

\* b = BitField(from_bit, to_bit)
Construct(from_bit, to_bit) ==
    /\ bf = None
    /\ call.op = "none"
    /\ LET b == BitField(from_bit, to_bit)
       IN  /\ bf' = IF b = AssertionError THEN None ELSE b
           /\ ret' = IF b = AssertionError THEN AssertionError ELSE None
    /\ call' = [op |-> "BitField", from_bit |-> from_bit, to_bit |-> to_bit]
    /\ UNCHANGED word

\* word = b.insert(field_value, word)
Insert(field_value) ==
    /\ bf # None
    /\ word' = insert(bf, field_value, word)
    /\ ret' = word'
    /\ call' = [op |-> "insert", field_value |-> field_value, word |-> word]
    /\ UNCHANGED bf

\* b.extract(word); inserted is the field value of the insert it follows
Extract ==
    /\ bf # None
    /\ ret' = extract(bf, word)
    /\ call' = [op |-> "extract", word |-> word,
                inserted |-> IF call.op = "insert" THEN call.field_value ELSE None]
    /\ UNCHANGED <<bf, word>>

\* b.extract_signed(word)
ExtractSigned ==
    /\ bf # None
    /\ ret' = extract_signed(bf, word)
    /\ call' = [op |-> "extract_signed", word |-> word]
    /\ UNCHANGED <<bf, word>>

\* sign_extend(field, width)
SignExtend(field, width) ==
    /\ bf = None
    /\ call.op = "none"
    /\ ret' = sign_extend(field, width)
    /\ call' = [op |-> "sign_extend", field |-> field, width |-> width]
    /\ UNCHANGED <<bf, word>>

NextBF ==
    \/ \E from_bit \in BitArgs, to_bit \in BitArgs :
          Construct(from_bit, to_bit) /\ UNCHANGED cpuvars
    \/ \E field_value \in FieldValues : Insert(field_value) /\ UNCHANGED cpuvars
    \/ Extract /\ UNCHANGED cpuvars
    \/ ExtractSigned /\ UNCHANGED cpuvars
    \/ \E field \in FieldValues, width \in BitArgs :
          SignExtend(field, width) /\ UNCHANGED cpuvars

SpecBF == InitBF /\ [][NextBF]_vars

\* ------------------------------------------------------------------------
\* Properties of the codec
\* ------------------------------------------------------------------------

\* Bit p of a Python int.
Bit(x, p) == IF x.neg THEN p \notin x.s ELSE p \in x.s

\* 0 <= x < 2^width
FitsIn(x, width) == ~x.neg /\ x.s \subseteq 0..(width - 1)

\* C1: for every BitField with 0 <= from_bit <= to_bit <= 31, every value v
\* with 0 <= v < 2^field_width and every 32-bit word w, extracting right
\* after insert(v, w) returns v.
C1_RoundTrip ==
    (/\ call.op = "extract"
     /\ call.inserted # None
     /\ bf.to_bit <= 31
     /\ FitsIn(call.inserted, bf.field_width))
    => ret = call.inserted

\* C1 witness: 0b101 was inserted into the 3-bit field 29..31 of a word that
\* held something else there, and extract has returned.
C1_Witness ==
    /\ call.op = "extract"
    /\ call.inserted = Py(5)
    /\ bf.from_bit = 29 /\ bf.to_bit = 31
    /\ word.s \ (29..31) # {}
    /\ ret = Py(5)

\* C2: BitField construction is rejected, and no BitField is produced, for
\* every pair (from_bit, to_bit) that does not satisfy
\* 0 <= from_bit <= to_bit <= 31.
C2_RejectsOutOfRange ==
    (/\ call.op = "BitField"
     /\ ~(0 <= call.from_bit /\ call.from_bit <= call.to_bit /\ call.to_bit <= 31))
    => (ret = AssertionError /\ bf = None)

\* C3: insert(v, w) never alters a bit of w outside [from_bit, to_bit], also
\* when v is wider than the field: every bit of the result outside the field
\* (and everything above the word) is the bit of w.
C3_InsertFrame ==
    call.op = "insert"
    => /\ \A p \in (0..(2 * WORD_SIZE + 1)) \ (bf.from_bit..bf.to_bit) :
             Bit(word, p) = Bit(call.word, p)
       /\ word.neg = call.word.neg

\* C3 witness: 0xffffffff was inserted into the 3-bit field 4..6 of the word
\* 0, and only the three field bits are set.
C3_Witness ==
    /\ call.op = "insert"
    /\ call.field_value = [neg |-> FALSE, s |-> 0..(WORD_SIZE - 1)]
    /\ bf.from_bit = 4 /\ bf.to_bit = 6
    /\ call.word = Py(0)
    /\ word.s = {4, 5, 6}

\* C4: insert is idempotent: inserting the value that was just inserted
\* leaves the word as it is, insert(v, insert(v, w)) = insert(v, w).
C4_InsertIdempotent ==
    [][(/\ call.op = "insert"
        /\ call'.op = "insert"
        /\ call'.field_value = call.field_value)
       => word' = word]_vars

\* C4 witness: 0b101 was inserted into field 4..7 of a word that already held
\* 0b101 there, which no initial word does: it is the second insertion.
C4_Witness ==
    /\ call.op = "insert"
    /\ call.field_value = Py(5)
    /\ bf.from_bit = 4 /\ bf.to_bit = 7
    /\ call.word = word
    /\ word.s \cap (4..7) = {4, 6}

\* The field bits of w, moved down to position 0.
FieldBits(b, w) == {p - b.from_bit : p \in {q \in b.from_bit..b.to_bit : Bit(w, q)}}

\* C5: for every width from 1 to 32 and every 32-bit word, extract_signed
\* returns extract(w) - 2^field_width when bit field_width-1 of the field is
\* set (the two's-complement number whose 0 bits are the field's 0 bits) and
\* extract(w) otherwise, so the result lies in
\* [-2^(field_width-1), 2^(field_width-1) - 1].
C5_ExtractSigned ==
    (call.op = "extract_signed" /\ bf.field_width <= WORD_SIZE)
    => LET u == FieldBits(bf, call.word)
           n == bf.field_width
       IN  /\ ret = IF (n - 1) \in u
                    THEN [neg |-> TRUE, s |-> (0..(n - 1)) \ u]
                    ELSE [neg |-> FALSE, s |-> u]
           /\ (n - 1) \in u => ret = Minus(extract(bf, call.word), LShift(Py(1), n))
           /\ LessEq(Minus(Py(0), LShift(Py(1), n - 1)), ret)
           /\ Less(ret, LShift(Py(1), n - 1))

\* C5 witness: a full-width (32-bit) field whose top bit is set was read as a
\* negative number.
C5_Witness ==
    /\ call.op = "extract_signed"
    /\ bf.field_width = WORD_SIZE
    /\ (WORD_SIZE - 1) \in call.word.s
    /\ ret.neg

\* C6: for every width >= 2 and every field with 0 <= field < 2^width,
\* sign_extend(field, width) is field - 2^width when bit width-1 is set and
\* field otherwise, which is what extract_signed returns for a word holding
\* that field in a BitField of that width.
C6_SignExtend ==
    (/\ call.op = "sign_extend"
     /\ call.width >= 2
     /\ FitsIn(call.field, call.width))
    => /\ ret = IF (call.width - 1) \in call.field.s
                THEN Minus(call.field, LShift(Py(1), call.width))
                ELSE call.field
       /\ call.width <= WORD_SIZE
          => ret = extract_signed(BitField(0, call.width - 1), call.field)

\* C6 witness: sign_extend(0b111, 3) returned -1.
C6_Witness ==
    /\ call.op = "sign_extend"
    /\ call.field = Py(7)
    /\ call.width = 3
    /\ ret = Py(-1)

\* ------------------------------------------------------------------------
\* Properties of the CPU
\* ------------------------------------------------------------------------

Stepped(outcome) == last # None /\ last.outcome = outcome

\* Registers 0..14 are what they were before the last step, and the PC is
\* one more.
OnlyPCAdvanced ==
    /\ \A i \in 0..14 : registers[i] = last.before.registers[i]
    /\ Minus(registers[PC], last.before.registers[PC]) = Py(1)

\* C7: a step whose predicate check yields NEVER changes nothing except the
\* PC, which advances by exactly 1: registers 0..14, the condition flags,
\* the halted flag and every memory cell are as before the step, whatever
\* the suppressed instruction is.
C7_SkipFrame ==
    Stepped("skipped")
    => /\ ~predicate_passes(last.before.cc, last.instr.cond)
       /\ OnlyPCAdvanced
       /\ cc = last.before.cc
       /\ halted = last.before.halted
       /\ memory = last.before.memory

\* C7 witness: a HALT under condition Z was suppressed while the flags were
\* P (neither is NEVER, their conjunction is).
C7_Witness ==
    /\ Stepped("skipped")
    /\ last.instr.op = HALT
    /\ last.instr.cond = Flag_Z
    /\ last.before.cc = Flag_P
    /\ ~halted

\* C8: a step that executes a HALT sets halted and writes no register,
\* whatever the target index is: apart from the PC's advance by exactly 1
\* every register is as before the step, and memory is unchanged.
C8_HaltFrame ==
    (Stepped("executed") /\ last.instr.op = HALT)
    => /\ halted
       /\ OnlyPCAdvanced
       /\ memory = last.before.memory

\* C8 witness: a HALT whose target index is 15 (the PC) was executed when
\* the ALU returned a result other than the next address.
C8_Witness ==
    /\ Stepped("executed")
    /\ last.instr.op = HALT
    /\ last.instr.reg_target = PC
    /\ last.alu.result # registers[PC]
    /\ halted

\* C9: once a step inside run has executed a HALT (run is in its loop and
\* halted is set), run can return, and the only thing that happens is that
\* it returns with halted still set: no further step, no fetch, notification,
\* register or memory change.
C9_RunStopsAfterHalt ==
    /\ []((mode = "running" /\ halted) => ENABLED RunReturn)
    /\ [][(mode = "running" /\ halted)
          => /\ mode' = "idle"
             /\ halted'
             /\ UNCHANGED <<registers, cc, memory, last, step_count>>]_vars

\* C9 witness: run is in its loop, its last step executed a HALT, and steps
\* are still allowed.
C9_Witness ==
    /\ mode = "running"
    /\ halted
    /\ Stepped("executed")
    /\ last.instr.op = HALT
    /\ step_count < MaxSteps

\* The last step was an executed LOAD from a cell that an executed STORE with
\* target register T wrote last.
LoadAfterStore ==
    /\ Stepped("executed")
    /\ last.instr.op = LOAD
    /\ written[Cell(last.before.memory, last.alu.result)] # None

StoredAtLoad == written[Cell(last.before.memory, last.alu.result)]

\* C10 (as claimed): after a STORE with target T to address A and a later
\* LOAD from A into another register D, with no write to A in between,
\* register D reads the value T held when the STORE committed, for every T
\* and D # T among the 16 registers.
C10_StoreLoadAnyRegister ==
    (LoadAfterStore /\ last.instr.reg_target # StoredAtLoad.target)
    => registers[last.instr.reg_target] = StoredAtLoad.value

\* C10 (amended): the same for every D # T other than register 0; a LOAD
\* into register 0 leaves it reading zero.
C10_StoreLoadRoundTrip ==
    (LoadAfterStore /\ last.instr.reg_target # StoredAtLoad.target)
    => registers[last.instr.reg_target] =
          IF last.instr.reg_target = 0 THEN Py(0) ELSE StoredAtLoad.value

\* C10 witness: register 1 held 0xffffffff when it was stored, and register 2
\* read it back from the cell.
C10_Witness ==
    /\ LoadAfterStore
    /\ StoredAtLoad.target = 1
    /\ StoredAtLoad.value = AllOnes
    /\ last.instr.reg_target = 2
    /\ registers[2] = AllOnes

\* The last call was a step (not run's preamble).
SteppedAny == last # None /\ last.outcome # "run"

\* C11: register 0 always reads zero, in every state reachable by any
\* sequence of run and step calls over any instruction stream, also after
\* instructions of every opcode whose target register index is 0.
C11_RegisterZero == registers[0] = Py(0)

\* C11 witness: an ADD with target register 0 was executed and the ALU
\* returned 0xffffffff for it.
C11_Witness ==
    /\ Stepped("executed")
    /\ last.instr.op = ADD
    /\ last.instr.reg_target = 0
    /\ last.alu.result = AllOnes
    /\ registers[0] = Py(0)

\* C12: every step that fetches and decodes an instruction emits exactly one
\* notification, carrying the address the instruction was fetched from, the
\* raw word and the decoded instruction, and emits it before any register,
\* flag, halted or memory change of that step (the listeners see the state
\* the step started from), also when the predicate then suppresses the
\* instruction.  A step whose fetch or decode raises emits none.
C12_NotifyBeforeExecute ==
    SteppedAny
    => IF last.instr # None
       THEN /\ last.notified = 1
            /\ last.seen = last.before
            /\ last.pc_addr = last.before.registers[PC]
            /\ last.instr_word =
                  last.before.memory[Cell(last.before.memory, last.pc_addr)]
            /\ last.instr = decode(last.instr_word)
       ELSE last.notified = 0 /\ last.raised # None

\* C12 witness: a suppressed STORE was notified once, and the step has
\* moved the PC on since.
C12_Witness ==
    /\ Stepped("skipped")
    /\ last.instr.op = STORE
    /\ last.instr.cond = NEVER
    /\ last.notified = 1
    /\ registers[PC] # last.seen.registers[PC]

\* C13: after an executed step, the PC is the committed value (the ALU
\* result, or the loaded memory value for LOAD), not that value plus 1, if
\* the target register is 15 and the opcode is neither STORE nor HALT; in
\* every other executed step it is its value before the step plus 1.
C13_StoreIntoPCWins ==
    Stepped("executed")
    => registers[PC] =
          IF last.instr.reg_target = PC /\ last.instr.op \notin {STORE, HALT}
          THEN IF last.instr.op = LOAD
               THEN last.before.memory[Cell(last.before.memory, last.alu.result)]
               ELSE last.alu.result
          ELSE Plus(last.before.registers[PC], Py(1))

\* C13 witness: a LOAD into register 15 was executed, and the PC holds the
\* loaded word, which is not the next address.
C13_Witness ==
    /\ Stepped("executed")
    /\ last.instr.op = LOAD
    /\ last.instr.reg_target = PC
    /\ registers[PC] = DataWord

\* A step is taken (by run or by a caller).
StepTaken == step_count' # step_count

\* C14: in every step whose predicate passes, the flags after the step are
\* the flags alu.exec returned, for every opcode including LOAD, STORE and
\* HALT (also when the commit then raises); and the predicate of the next
\* step is evaluated against these flags: that step is suppressed exactly if
\* the conjunction of the current flags and its condition is NEVER.
C14_FlagsReplaced ==
    /\ []((SteppedAny /\ last.alu # None) => cc = last.alu.cc)
    /\ [][(StepTaken /\ last'.instr # None)
          => ((last'.outcome = "skipped") <=> (BitAnd(cc, last'.instr.cond) = NEVER))]_vars

\* C14 witness: a HALT under condition Z was executed because the flags were
\* Z, and the flags are now the P the ALU returned for it.
C14_Witness ==
    /\ Stepped("executed")
    /\ last.instr.op = HALT
    /\ last.instr.cond = Flag_Z
    /\ last.before.cc = Flag_Z
    /\ last.alu.cc = Flag_P
    /\ cc = Flag_P

RunBegan == last # None /\ last.outcome = "run"

\* C15: a run call, also one made after a run that ended with halted set,
\* first sets halted=false and PC=from_addr, so its loop test finds halted
\* false and it cannot return before a step, and its first step fetches from
\* from_addr.
C15_RunReusable ==
    /\ [][(mode = "idle" /\ mode' = "running")
          => (RunBegan' /\ last'.was_halted = halted /\ ~halted')]_vars
    /\ [](RunBegan
          => /\ mode = "running"
             /\ ~halted
             /\ registers[PC] = last.from_addr
             /\ loop_continues(halted)
             /\ ~ENABLED RunReturn)
    /\ [][(RunBegan /\ StepTaken)
          => /\ last'.pc_addr = last.from_addr
             /\ last'.instr_word # None
                => last'.instr_word = memory[Cell(memory, last.from_addr)]]_vars

\* C15 witness: run(1) was called on a CPU that a HALT had left halted, and
\* its first step is still to come.
C15_Witness ==
    /\ RunBegan
    /\ last.was_halted
    /\ last.from_addr = Py(1)
    /\ ~halted
    /\ step_count < MaxSteps

ExecutedHalt == Stepped("executed") /\ last.instr.op = HALT

\* C16 (as claimed): in every reachable state, halted is true only if the
\* most recent step since the last run call executed a HALT whose predicate
\* passed.
C16_HaltedOnlyAfterHalt == halted => ExecutedHalt

\* C16 (amended): halted turns from false to true only in a step that
\* executes a HALT whose predicate passed; a suppressed HALT and every other
\* instruction leave halted as it was; and inside run, halted is true only if
\* the most recent step executed a HALT.  (A step called directly after a
\* HALT leaves halted true.)
C16_HaltedOnlyByHalt ==
    /\ []((mode = "running" /\ halted) => ExecutedHalt)
    /\ [][(~halted /\ halted') => ExecutedHalt']_vars
    /\ [][(StepTaken /\ ~ExecutedHalt') => halted' = halted]_vars

\* C16 witness: a step called by a caller executed a HALT under ALWAYS and
\* set the flag, which was not set before.
C16_Witness ==
    /\ ExecutedHalt
    /\ mode = "idle"
    /\ last.instr.cond = ALWAYS
    /\ ~last.before.halted
    /\ halted

\* C17: an executed STORE writes the target register's value as it is at
\* commit time (after the PC step) to the cell the result names and uses the
\* result only as the address: exactly that cell changes, and no register
\* other than the PC; with target register 15 the stored value is the
\* instruction's address plus 1.
C17_StoreFrame ==
    (Stepped("executed") /\ last.instr.op = STORE)
    => LET a == Cell(last.before.memory, last.alu.result)
       IN  /\ a # -1
           /\ memory =
                [last.before.memory EXCEPT ![a] =
                    IF last.instr.reg_target = PC
                    THEN Plus(last.pc_addr, Py(1))
                    ELSE last.before.registers[last.instr.reg_target]]
           /\ OnlyPCAdvanced

\* C17 witness: a STORE of register 15 at address 0 wrote 1 into the last
\* memory cell, whose address the ALU returned.
C17_Witness ==
    /\ Stepped("executed")
    /\ last.instr.op = STORE
    /\ last.instr.reg_target = PC
    /\ last.pc_addr = Py(0)
    /\ last.alu.result = Py(MaxAddr)
    /\ memory[MaxAddr] = Py(1)

\* C18: sign_extend raises an assertion error, returning no value, whenever
\* width is not 2 or greater or the field does not fit in width bits
\* (field < 0 or field >= 2^width), and returns a value only otherwise.
C18_SignExtendRejects ==
    call.op = "sign_extend"
    => ((ret = AssertionError)
        <=> ~(call.width >= 2 /\ FitsIn(call.field, call.width)))

AluCalled == SteppedAny /\ last.alu # None

\* C19: the operands passed to the ALU are formed from the register values
\* held before any write of the step: left is register[src1] and right is
\* register[src2] + offset; with register 15 as a source the operand is built
\* from the instruction's own address a, not from a+1.
C19_OperandsBeforeAdvance ==
    AluCalled
    => /\ last.left = last.before.registers[last.instr.reg_src1]
       /\ last.right =
            Plus(last.before.registers[last.instr.reg_src2], last.instr.offset)
       /\ last.instr.reg_src1 = PC => last.left = last.pc_addr
       /\ last.instr.reg_src2 = PC
          => last.right = Plus(last.pc_addr, last.instr.offset)

\* C19 witness: ADD r1, r15, r15 with offset -1 was executed at address 0;
\* the ALU was given 0 and 0 + (-1), and the PC is 1 only afterwards.
C19_Witness ==
    /\ Stepped("executed")
    /\ last.instr.op = ADD
    /\ last.instr.reg_src1 = PC
    /\ last.instr.reg_src2 = PC
    /\ last.pc_addr = Py(0)
    /\ last.left = Py(0)
    /\ last.right = Py(-1)
    /\ registers[PC] = Py(1)

\* C20: in every step that calls the ALU, the left and right operands passed
\* to alu.exec and the value of the PC after the step lie in [0, 2^32).
C20_Unsigned32 ==
    AluCalled
    => /\ FitsIn(last.left, WORD_SIZE)
       /\ FitsIn(last.right, WORD_SIZE)
       /\ FitsIn(registers[PC], WORD_SIZE)

====
